---- MODULE Spec2Model ----
(***************************************************************************)
(* Model of the rebalancing engine of src/src/rebalancing.rs:              *)
(* UserPortfolio / ProfileAllocation bookkeeping and the operations        *)
(* deposit, withdraw, rebalance (rebalance_profile) and should_rebalance   *)
(* of RebalancingSystem, driven by a RiskWeightModel weight provider.      *)
(*                                                                         *)
(* Amounts are u64 in the source.  The model keeps the machine width but   *)
(* scales it: an amount has U64_BITS bits, so U64_MAX plays the role of    *)
(* u64::MAX and I64_MAX the role of i64::MAX.  Basis points are not        *)
(* scaled (10_000 = 100%).                                                 *)
(***************************************************************************)
EXTENDS Integers, Sequences, FiniteSets, TLC

(***************************************************************************)
(* Bounds of the model.                                                    *)
(***************************************************************************)
\* width of an amount (u64 in the source), in bits
U64_BITS == 5
\* number of steps (engine calls and clock changes) explored from the empty
\* portfolio
MaxOps == 3

(***************************************************************************)
(* Program constants.                                                      *)
(***************************************************************************)
\* the divisor of every basis-point computation
BPS_DENOMINATOR == 10000
\* Duration::from_secs(1 * 60 * 60)
rebalance_interval == 3600

RECURSIVE Pow2(_)
Pow2(n) == IF n = 0 THEN 1 ELSE 2 * Pow2(n - 1)

U64_MAX == Pow2(U64_BITS) - 1
I64_MAX == Pow2(U64_BITS - 1) - 1
I64_MIN == -Pow2(U64_BITS - 1)

(***************************************************************************)
(* enum Protocol, in declaration order, and the risk profiles.             *)
(***************************************************************************)
ProtocolSeq == <<"Kamino", "Solend", "Drift", "Marginfy">>
Protocol == {ProtocolSeq[i] : i \in 1..Len(ProtocolSeq)}
RiskProfile == {"Low", "High"}

\* the two Err(String) values of withdraw, and the other outcomes of a call
ProfileNotFound == "Risk profile not found in portfolio"
InsufficientFunds == "Insufficient funds for withdrawal"
Ok == "Ok"
Panic == "panic"

(***************************************************************************)
(* Integer arithmetic of the source.                                       *)
(***************************************************************************)
\* u64::saturating_add
saturating_add(a, b) == IF a + b > U64_MAX THEN U64_MAX ELSE a + b
\* u64::saturating_sub
saturating_sub(a, b) == IF b > a THEN 0 ELSE a - b
\* (x as u128).saturating_mul(y as u128): the product of two u64 fits a u128
saturating_mul(a, b) == a * b
\* `x as u64` of a wider or signed amount: the low bits
as_u64(x) == x % (U64_MAX + 1)
\* `x as i64` of a u64 amount: two's complement reinterpretation
as_i64(x) == ((x - I64_MIN) % (U64_MAX + 1)) + I64_MIN
\* does a signed result fit an i64?
fits_i64(x) == I64_MIN <= x /\ x <= I64_MAX

(***************************************************************************)
(* HashMap helpers.  A map is a function whose DOMAIN is its key set.      *)
(***************************************************************************)
EmptyMap == [k \in {} |-> 0]
\* map.get(&k).unwrap_or(&0)
get_or_zero(map, k) == IF k \in DOMAIN map THEN map[k] ELSE 0
\* *map.entry(k).or_insert(0) = v
insert(map, k, v) == [q \in (DOMAIN map) \cup {k} |-> IF q = k THEN v ELSE map[q]]

RECURSIVE SumOver(_, _)
SumOver(map, keys) ==
    IF keys = {} THEN 0
    ELSE LET k == CHOOSE k \in keys : TRUE
         IN  map[k] + SumOver(map, keys \ {k})
\* the sum of the values of a map
MapSum(map) == SumOver(map, DOMAIN map)

RECURSIVE SeqSum(_)
SeqSum(s) == IF s = <<>> THEN 0 ELSE Head(s) + SeqSum(Tail(s))

\* The keys of a set in enum order, and in reverse enum order.
RECURSIVE InEnumOrder(_, _)
InEnumOrder(keys, i) ==
    IF i > Len(ProtocolSeq) THEN <<>>
    ELSE IF ProtocolSeq[i] \in keys
         THEN <<ProtocolSeq[i]>> \o InEnumOrder(keys, i + 1)
         ELSE InEnumOrder(keys, i + 1)
Reverse(s) == [i \in 1..Len(s) |-> s[Len(s) + 1 - i]]
\* The iteration order of a HashMap is not specified: the model draws it
\* from the enum order of the keys and its reverse.
IterationOrders(keys) == {InEnumOrder(keys, 1), Reverse(InEnumOrder(keys, 1))}

(***************************************************************************)
(* The weight provider (trait RiskWeightModel).  Every map sums to         *)
(* 10_000 bps.  Low gets the map of tests::MockRiskModel; High gets the    *)
(* two maps of the mock (Kamino and Drift swapping) and two further maps,  *)
(* so that a pool can leave the weight map, several pools can need or      *)
(* release funds at once, and everything can be recommended into one pool. *)
(***************************************************************************)
LowWeights ==
    { [Kamino |-> 10000] }
HighWeights ==
    { [Kamino |-> 5000, Drift |-> 3000, Marginfy |-> 1000, Solend |-> 1000],
      [Kamino |-> 3000, Drift |-> 5000, Marginfy |-> 1000, Solend |-> 1000],
      [Marginfy |-> 5000, Solend |-> 5000],
      [Kamino |-> 10000] }
\* get_recommended_weights(profile): the maps the provider may return
get_recommended_weights(profile) ==
    IF profile = "Low" THEN LowWeights ELSE HighWeights

(***************************************************************************)
(* struct ProfileAllocation and RebalancingSystem::deposit.                *)
(***************************************************************************)
\* the allocation or_insert_with creates for a profile that has none
NewAllocation(profile) ==
    [risk_profile |-> profile, pool_allocations |-> EmptyMap, total_amount |-> 0]

\* profile_allocation.total_amount.saturating_add(amount)
deposit_total(total_amount, amount) == saturating_add(total_amount, amount)

\* Faulty variant of allocation_amount: the share rounded up instead of down.
allocation_amount_rounded_up(amount, basis_points) ==
    as_u64((saturating_mul(amount, basis_points) + BPS_DENOMINATOR - 1) \div BPS_DENOMINATOR)

\* (amount as u128).saturating_mul(basis_points as u128).saturating_div(10_000) as u64
allocation_amount(amount, basis_points) ==
    as_u64(saturating_mul(amount, basis_points) \div BPS_DENOMINATOR)

\* deposits_to_execute.push(DepositToExecute { protocol, amount, allocation_basis_points })
DepositToExecute(pool_id, share, basis_points) ==
    [protocol |-> pool_id, amount |-> share, allocation_basis_points |-> basis_points]

\* for (pool_id, basis_points) in weights { ... }, weights iterated in `order`
RECURSIVE deposit_loop(_, _, _, _, _)
deposit_loop(pool_allocations, deposits_to_execute, weights, order, amount) ==
    IF order = <<>>
    THEN [pool_allocations |-> pool_allocations,
          deposits_to_execute |-> deposits_to_execute]
    ELSE deposit_loop(
             insert(pool_allocations, Head(order),
                    saturating_add(get_or_zero(pool_allocations, Head(order)),
                                   allocation_amount(amount, weights[Head(order)]))),
             Append(deposits_to_execute,
                    DepositToExecute(Head(order),
                                     allocation_amount(amount, weights[Head(order)]),
                                     weights[Head(order)])),
             weights, Tail(order), amount)

\* the allocation of the profile: entry(profile).or_insert_with(..)
entry_or_insert(profiles, profile) ==
    IF profile \in DOMAIN profiles THEN profiles[profile] ELSE NewAllocation(profile)

\* Faulty variant of deposit_return: the portfolio keeps only the profile
\* deposited into.
deposit_return_alone(profiles, profile, amount, loop) ==
    [risk_profiles |->
         insert(EmptyMap, profile,
                [risk_profile |-> profile,
                 pool_allocations |-> loop.pool_allocations,
                 total_amount |->
                     deposit_total(entry_or_insert(profiles, profile).total_amount, amount)]),
     result |-> Ok,
     deposits_to_execute |-> loop.deposits_to_execute,
     fetched |-> insert(EmptyMap, profile, profiles)]

\* what deposit leaves and returns, given the outcome of its loop
deposit_return(profiles, profile, amount, loop) ==
    [risk_profiles |->
         insert(profiles, profile,
                [risk_profile |-> profile,
                 pool_allocations |-> loop.pool_allocations,
                 total_amount |->
                     deposit_total(entry_or_insert(profiles, profile).total_amount, amount)]),
     result |-> Ok,
     deposits_to_execute |-> loop.deposits_to_execute,
     \* the portfolio as it was at get_recommended_weights(&profile), the
     \* first statement of deposit
     fetched |-> insert(EmptyMap, profile, profiles)]

\* deposit(portfolio, profile, amount) with the weights the provider returned
deposit(profiles, profile, amount, weights, order) ==
    deposit_return(profiles, profile, amount,
                   deposit_loop(entry_or_insert(profiles, profile).pool_allocations,
                                <<>>, weights, order, amount))

(***************************************************************************)
(* RebalancingSystem::withdraw.                                            *)
(***************************************************************************)
\* Faulty variant of get_mut: entry(profile).or_insert_with(..), as deposit does.
get_mut_or_insert(profiles, profile) ==
    [found |-> TRUE,
     allocation |-> IF profile \in DOMAIN profiles THEN profiles[profile]
                    ELSE NewAllocation(profile)]

\* portfolio.risk_profiles.get_mut(profile)
get_mut(profiles, profile) ==
    IF profile \in DOMAIN profiles
    THEN [found |-> TRUE, allocation |-> profiles[profile]]
    ELSE [found |-> FALSE, allocation |-> NewAllocation(profile)]

\* Faulty variant of insufficient_funds: the guard off by one.
insufficient_funds_off_by_one(amount, total_amount) == amount > total_amount + 1

\* if amount > profile_allocation.total_amount
insufficient_funds(amount, total_amount) == amount > total_amount

\* Faulty variant of proportion_bps: the amount is scaled by 9_999.
proportion_bps_short(amount, total_amount) ==
    saturating_mul(amount, BPS_DENOMINATOR - 1) \div total_amount

\* (amount as u128).saturating_mul(10_000).saturating_div(total_amount as u128) as u64,
\* for total_amount > 0; the quotient is at most 10_000 as amount <= total_amount
proportion_bps(amount, total_amount) ==
    saturating_mul(amount, BPS_DENOMINATOR) \div total_amount

\* Faulty variant of withdrawal_amount: the quotient rounded up.
withdrawal_amount_rounded_up(pool_amount, proportion) ==
    as_u64((saturating_mul(pool_amount, proportion) + BPS_DENOMINATOR - 1)
               \div BPS_DENOMINATOR)

\* (*pool_amount as u128).saturating_mul(proportion_bps as u128).saturating_div(10_000) as u64
withdrawal_amount(pool_amount, proportion) ==
    as_u64(saturating_mul(pool_amount, proportion) \div BPS_DENOMINATOR)

\* the withdrawals vector, by pool: (withdrawal_amount, remaining)
withdrawals_of(pool_allocations, proportion) ==
    [pool_id \in DOMAIN pool_allocations |->
        [withdrawal_amount |-> withdrawal_amount(pool_allocations[pool_id], proportion),
         remaining |->
             saturating_sub(pool_allocations[pool_id],
                            withdrawal_amount(pool_allocations[pool_id], proportion))]]

\* Faulty variant of withdraw_total: the total is left as it was.
withdraw_total_unchanged(total_amount, amount) == total_amount

\* profile_allocation.total_amount.saturating_sub(amount)
withdraw_total(total_amount, amount) == saturating_sub(total_amount, amount)

\* a withdraw that returns before it changes anything
withdraw_failed(profiles, err) ==
    [risk_profiles |-> profiles, result |-> err, withdrawals |-> EmptyMap]

\* Faulty variant of withdraw_execute: a pool drained to zero loses its entry.
withdraw_execute_pruning(profiles, profile, amount, profile_allocation, withdrawals) ==
    [risk_profiles |->
         insert(profiles, profile,
                [risk_profile |-> profile_allocation.risk_profile,
                 pool_allocations |->
                     [pool_id \in {q \in DOMAIN withdrawals : withdrawals[q].remaining > 0}
                          |-> withdrawals[pool_id].remaining],
                 total_amount |-> withdraw_total(profile_allocation.total_amount, amount)]),
     result |-> Ok,
     withdrawals |-> withdrawals]

\* the "Execute withdrawals" loop and the update of the total
withdraw_execute(profiles, profile, amount, profile_allocation, withdrawals) ==
    [risk_profiles |->
         insert(profiles, profile,
                [risk_profile |-> profile_allocation.risk_profile,
                 pool_allocations |->
                     [pool_id \in DOMAIN withdrawals |-> withdrawals[pool_id].remaining],
                 total_amount |-> withdraw_total(profile_allocation.total_amount, amount)]),
     result |-> Ok,
     withdrawals |-> withdrawals]

\* withdraw, once the allocation was looked up
withdraw_from(profiles, profile, amount, looked) ==
    IF ~looked.found THEN withdraw_failed(profiles, ProfileNotFound)
    ELSE IF insufficient_funds(amount, looked.allocation.total_amount)
         THEN withdraw_failed(profiles, InsufficientFunds)
    \* saturating_div by a zero total_amount: attempt to divide by zero
    ELSE IF looked.allocation.total_amount = 0 THEN withdraw_failed(profiles, Panic)
    ELSE withdraw_execute(profiles, profile, amount, looked.allocation,
                          withdrawals_of(looked.allocation.pool_allocations,
                                         proportion_bps(amount,
                                                        looked.allocation.total_amount)))

\* withdraw(portfolio, profile, amount)
withdraw(profiles, profile, amount) ==
    withdraw_from(profiles, profile, amount, get_mut(profiles, profile))

(***************************************************************************)
(* RebalancingSystem::rebalance_profile.                                   *)
(***************************************************************************)
\* (allocation.total_amount as u128).saturating_mul(*basis_points as u128)
\*     .saturating_div(10_000) as u64
target_amount(total_amount, basis_points) ==
    as_u64(saturating_mul(total_amount, basis_points) \div BPS_DENOMINATOR)

\* target_amounts, over the pools of the weight map
target_amounts_of(allocation, target_weights) ==
    [pool_id \in DOMAIN target_weights |->
        target_amount(allocation.total_amount, target_weights[pool_id])]

\* current_amounts, over the pools of the weight map
current_amounts_of(allocation, target_weights) ==
    [pool_id \in DOMAIN target_weights |->
        get_or_zero(allocation.pool_allocations, pool_id)]

\* match target_amount.checked_sub(current_amount) {
\*     Some(positive_delta) => positive_delta as i64,
\*     None => -(current_amount as i64 - *target_amount as i64) }
\* `overflow` tells that the signed subtraction or the negation left the
\* i64 range: a panic with overflow checks, a wrapped value without.
delta_of(target, current) ==
    IF target >= current
    THEN [value |-> as_i64(target - current), overflow |-> FALSE]
    ELSE LET diff == as_i64(current) - as_i64(target)
             negated == -as_i64(as_u64(diff))
         IN  [value |-> as_i64(as_u64(negated)),
              overflow |-> ~fits_i64(diff) \/ ~fits_i64(negated)]

\* deltas, over the pools of the weight map
deltas_of(allocation, target_weights) ==
    LET targets == target_amounts_of(allocation, target_weights)
        currents == current_amounts_of(allocation, target_weights)
    IN  [pool_id \in DOMAIN target_weights |->
            delta_of(targets[pool_id], currents[pool_id])]

\* deltas.iter().filter(..).collect(): the pools that pass, in iteration order
RECURSIVE filter_positive(_, _)
filter_positive(order, deltas) ==
    IF order = <<>> THEN <<>>
    ELSE IF deltas[Head(order)] > 0
         THEN <<Head(order)>> \o filter_positive(Tail(order), deltas)
         ELSE filter_positive(Tail(order), deltas)
RECURSIVE filter_negative(_, _)
filter_negative(order, deltas) ==
    IF order = <<>> THEN <<>>
    ELSE IF deltas[Head(order)] < 0
         THEN <<Head(order)>> \o filter_negative(Tail(order), deltas)
         ELSE filter_negative(Tail(order), deltas)

\* Vec::sort_by is stable: x goes behind every element that does not
\* compare greater than it.  `descending` is sort_by(|a, b| b.1.cmp(a.1)).
RECURSIVE sorted_insert(_, _, _, _)
sorted_insert(sorted, x, deltas, descending) ==
    IF sorted = <<>> THEN <<x>>
    ELSE LET y == Head(sorted)
             x_first == IF descending THEN deltas[x] > deltas[y]
                        ELSE deltas[x] < deltas[y]
         IN  IF x_first THEN <<x>> \o sorted
             ELSE <<y>> \o sorted_insert(Tail(sorted), x, deltas, descending)
RECURSIVE sort_by(_, _, _, _)
sort_by(pools, deltas, descending, sorted) ==
    IF pools = <<>> THEN sorted
    ELSE sort_by(Tail(pools), deltas, descending,
                 sorted_insert(sorted, Head(pools), deltas, descending))

\* positive_deltas.sort_by(|a, b| b.1.cmp(a.1))
positive_deltas_of(order, deltas) ==
    sort_by(filter_positive(order, deltas), deltas, TRUE, <<>>)
\* negative_deltas.sort_by(|a, b| a.1.cmp(b.1)), most negative first
negative_deltas_of(order, deltas) ==
    sort_by(filter_negative(order, deltas), deltas, FALSE, <<>>)

\* negative_delta.abs() as u64: abs of i64::MIN overflows
abs_i64(x) ==
    [value |-> as_u64(IF x < 0 THEN -x ELSE x), overflow |-> x = I64_MIN]

\* i64::saturating_sub
saturating_sub_i64(a, b) ==
    IF a - b > I64_MAX THEN I64_MAX ELSE IF a - b < I64_MIN THEN I64_MIN ELSE a - b

\* std::cmp::min(remaining_delta as u64, negative_delta.abs() as u64)
transfer_amount_of(remaining_delta, negative_delta) ==
    LET need == as_u64(remaining_delta)
        excess == abs_i64(negative_delta).value
    IN  IF need < excess THEN need ELSE excess

\* the pool a transfer debits: from_pool .. saturating_sub(transfer_amount)
debit(pool_allocations, from_pool, transfer_amount) ==
    insert(pool_allocations, from_pool,
           saturating_sub(get_or_zero(pool_allocations, from_pool), transfer_amount))
\* the pool a transfer credits: to_pool .. saturating_add(transfer_amount)
credit(pool_allocations, to_pool, transfer_amount) ==
    insert(pool_allocations, to_pool,
           saturating_add(get_or_zero(pool_allocations, to_pool), transfer_amount))

\* one executed transfer: the plan entry, both balances, the remaining need
transfer(st, from_pool, to_pool, transfer_amount) ==
    IF transfer_amount > 0
    THEN [st EXCEPT
            !.transfers = Append(@, <<from_pool, to_pool, transfer_amount>>),
            !.pool_allocations =
                debit(credit(@, to_pool, transfer_amount), from_pool, transfer_amount),
            !.remaining_delta = saturating_sub_i64(@, as_i64(transfer_amount))]
    ELSE st

\* for (from_pool, negative_delta) in negative_deltas.clone() { ... }
\* st = [pool_allocations, transfers, remaining_delta, panicked]
RECURSIVE inner_loop(_, _, _, _, _)
\* if remaining_delta <= 0 { break; }
break_or_continue(moved, to_pool, negative_deltas, deltas, checks) ==
    IF moved.remaining_delta <= 0 THEN moved
    ELSE inner_loop(moved, to_pool, negative_deltas, deltas, checks)
inner_loop(st, to_pool, negative_deltas, deltas, checks) ==
    IF negative_deltas = <<>> \/ st.panicked THEN st
    ELSE IF st.remaining_delta <= 0 \/ deltas[Head(negative_deltas)] >= 0
         THEN inner_loop(st, to_pool, Tail(negative_deltas), deltas, checks)
    ELSE IF checks /\ abs_i64(deltas[Head(negative_deltas)]).overflow
         THEN [st EXCEPT !.panicked = TRUE]
    ELSE break_or_continue(
             transfer(st, Head(negative_deltas), to_pool,
                      transfer_amount_of(st.remaining_delta,
                                         deltas[Head(negative_deltas)])),
             to_pool, Tail(negative_deltas), deltas, checks)

\* for (to_pool, positive_delta) in positive_deltas { ... }
RECURSIVE outer_loop(_, _, _, _, _)
outer_loop(st, positive_deltas, negative_deltas, deltas, checks) ==
    IF positive_deltas = <<>> \/ st.panicked THEN st
    ELSE outer_loop(
             inner_loop([st EXCEPT !.remaining_delta = deltas[Head(positive_deltas)]],
                        Head(positive_deltas), negative_deltas, deltas, checks),
             Tail(positive_deltas), negative_deltas, deltas, checks)

\* Faulty variant of rebalance_profile_return: total_amount is set to the sum
\* of the pool balances.
rebalance_profile_return_retotal(allocation, done) ==
    [allocation |-> [allocation EXCEPT !.pool_allocations = done.pool_allocations,
                                       !.total_amount = MapSum(done.pool_allocations)],
     transfers |-> done.transfers,
     panicked |-> done.panicked]

\* what rebalance_profile leaves, given the outcome of its transfer loops
rebalance_profile_return(allocation, done) ==
    [allocation |-> [allocation EXCEPT !.pool_allocations = done.pool_allocations],
     transfers |-> done.transfers,
     panicked |-> done.panicked]

\* the sorting and the transfer loops of rebalance_profile, given the deltas
execute_transfers(allocation, deltas, order, checks) ==
    rebalance_profile_return(
        allocation,
        outer_loop([pool_allocations |-> allocation.pool_allocations,
                    transfers |-> <<>>, remaining_delta |-> 0, panicked |-> FALSE],
                   positive_deltas_of(order, deltas),
                   negative_deltas_of(order, deltas), deltas, checks))

\* rebalance_profile, once the deltas are computed
rebalance_with(allocation, computed, order, checks) ==
    IF checks /\ \E pool_id \in DOMAIN computed : computed[pool_id].overflow
    THEN [allocation |-> allocation, transfers |-> <<>>, panicked |-> TRUE]
    ELSE execute_transfers(allocation,
                           [pool_id \in DOMAIN computed |-> computed[pool_id].value],
                           order, checks)

\* rebalance_profile(profile, allocation) with the weights the provider
\* returned, `order` the iteration order of the deltas map and `checks`
\* whether the build panics on integer overflow (a debug build does, a
\* release build wraps)
rebalance_profile(allocation, target_weights, order, checks) ==
    rebalance_with(allocation, deltas_of(allocation, target_weights), order, checks)

(***************************************************************************)
(* RebalancingSystem::rebalance and should_rebalance.                      *)
(***************************************************************************)
\* for (profile, allocation) in &mut portfolio.risk_profiles {
\*     self.rebalance_profile(profile, allocation)?; }
\* A panic of rebalance_profile ends the loop with the earlier profiles
\* already rebalanced.  rebalance_profile calls get_recommended_weights as
\* its first statement: `fetched` keeps, per profile, the portfolio as it
\* was at that call.
RECURSIVE rebalance_loop(_, _, _, _, _, _, _)
\* the loop after rebalance_profile returned r for the first profile
rebalance_next(r, profiles, profile_order, weights_of, order_of, checks, transfers, fetched) ==
    IF r.panicked
    THEN [risk_profiles |-> [profiles EXCEPT ![Head(profile_order)] = r.allocation],
          transfers |-> [transfers EXCEPT ![Head(profile_order)] = r.transfers],
          fetched |-> insert(fetched, Head(profile_order), profiles),
          panicked |-> TRUE]
    ELSE rebalance_loop([profiles EXCEPT ![Head(profile_order)] = r.allocation],
                        Tail(profile_order), weights_of, order_of, checks,
                        [transfers EXCEPT ![Head(profile_order)] = r.transfers],
                        insert(fetched, Head(profile_order), profiles))
rebalance_loop(profiles, profile_order, weights_of, order_of, checks, transfers, fetched) ==
    IF profile_order = <<>>
    THEN [risk_profiles |-> profiles, transfers |-> transfers, fetched |-> fetched,
          panicked |-> FALSE]
    ELSE rebalance_next(
             rebalance_profile(profiles[Head(profile_order)],
                               weights_of[Head(profile_order)],
                               order_of[Head(profile_order)], checks),
             profiles, profile_order, weights_of, order_of, checks, transfers, fetched)

\* Faulty variant of rebalance_return: the timestamp is set only when some
\* transfer was produced.
rebalance_return_only_if_moved(loop, rebalanced_at, clock) ==
    [risk_profiles |-> loop.risk_profiles,
     transfers |-> loop.transfers,
     fetched |-> loop.fetched,
     last_rebalance |->
         IF loop.panicked \/ \A profile \in DOMAIN loop.transfers :
                                 loop.transfers[profile] = <<>>
         THEN rebalanced_at ELSE clock,
     result |-> IF loop.panicked THEN Panic ELSE Ok]

\* portfolio.last_rebalance = SystemTime::now(), reached when no profile panicked
rebalance_return(loop, rebalanced_at, clock) ==
    [risk_profiles |-> loop.risk_profiles,
     transfers |-> loop.transfers,
     fetched |-> loop.fetched,
     last_rebalance |-> IF loop.panicked THEN rebalanced_at ELSE clock,
     result |-> IF loop.panicked THEN Panic ELSE Ok]

\* rebalance(portfolio) with the weights the provider returned per profile
rebalance(profiles, rebalanced_at, clock, profile_order, weights_of, order_of, checks) ==
    rebalance_return(
        rebalance_loop(profiles, profile_order, weights_of, order_of, checks,
                       [profile \in DOMAIN profiles |-> <<>>], EmptyMap),
        rebalanced_at, clock)

\* Faulty variant of should_rebalance: the interval must be exceeded.
should_rebalance_strict(clock, rebalanced_at) ==
    (IF clock >= rebalanced_at THEN clock - rebalanced_at ELSE 0) > rebalance_interval

\* SystemTime::now().duration_since(portfolio.last_rebalance)
\*     .unwrap_or(Duration::from_secs(0)) >= self.rebalance_interval
should_rebalance(clock, rebalanced_at) ==
    (IF clock >= rebalanced_at THEN clock - rebalanced_at ELSE 0) >= rebalance_interval

(***************************************************************************)
(* The state: one UserPortfolio, the clock, and a record of the last      *)
(* step (a call's arguments, the portfolio it found, what it returned).    *)
(***************************************************************************)
VARIABLES
    user_wallet,      \* portfolio.user_wallet
    risk_profiles,    \* portfolio.risk_profiles: RiskProfile -> ProfileAllocation
    last_rebalance,   \* portfolio.last_rebalance
    now,              \* SystemTime::now(), in seconds
    steps,            \* the number of steps taken
    called,           \* the operations of the engine called so far
    last              \* the last step

vars == <<user_wallet, risk_profiles, last_rebalance, now, steps, called, last>>

\* the amounts a caller deposits
DepositAmounts == {0, 3, 20, U64_MAX}
\* the amounts a caller asks to withdraw from a profile
WithdrawAmounts(profile) ==
    {0, 1} \cup
    (IF profile \in DOMAIN risk_profiles
     THEN {risk_profiles[profile].total_amount \div 2,
           risk_profiles[profile].total_amount,
           saturating_add(risk_profiles[profile].total_amount, 1)}
     ELSE {})

\* every order of the elements of a set
OrdersOf(S) ==
    {s \in [1..Cardinality(S) -> S] : \A i, j \in 1..Cardinality(S) : i # j => s[i] # s[j]}

NoCall ==
    [op |-> "new", profile |-> "", amount |-> 0, result |-> Ok,
     before |-> EmptyMap, before_last_rebalance |-> 0, weights |-> EmptyMap,
     deposits_to_execute |-> <<>>, withdrawals |-> EmptyMap, transfers |-> EmptyMap,
     fetched |-> EmptyMap]

\* UserPortfolio { user_wallet, risk_profiles: HashMap::new(),
\*                 last_rebalance: SystemTime::now() }
\* The clock reads 1 at construction, so that it can also be set back.
Init ==
    /\ user_wallet = "Pubkey::default()"
    /\ risk_profiles = EmptyMap
    /\ now = 1
    /\ last_rebalance = now
    /\ steps = 0
    /\ called = {}
    /\ last = [NoCall EXCEPT !.before_last_rebalance = now]

Deposit ==
    /\ steps < MaxOps
    /\ \E profile \in RiskProfile, amount \in DepositAmounts :
         \E weights \in get_recommended_weights(profile) :
           \E order \in IterationOrders(DOMAIN weights) :
             \E r \in {deposit(risk_profiles, profile, amount, weights, order)} :
               /\ risk_profiles' = r.risk_profiles
               /\ last' = [NoCall EXCEPT
                             !.op = "deposit", !.profile = profile, !.amount = amount,
                             !.result = r.result, !.before = risk_profiles,
                             !.before_last_rebalance = last_rebalance,
                             !.weights = [p \in {profile} |-> weights],
                             !.deposits_to_execute = r.deposits_to_execute,
                             !.fetched = r.fetched]
    /\ steps' = steps + 1
    /\ called' = called \cup {last'.op}
    /\ UNCHANGED <<user_wallet, last_rebalance, now>>

Withdraw ==
    /\ steps < MaxOps
    /\ \E profile \in RiskProfile :
         \E amount \in WithdrawAmounts(profile) :
           \E r \in {withdraw(risk_profiles, profile, amount)} :
             /\ risk_profiles' = r.risk_profiles
             /\ last' = [NoCall EXCEPT
                           !.op = "withdraw", !.profile = profile, !.amount = amount,
                           !.result = r.result, !.before = risk_profiles,
                           !.before_last_rebalance = last_rebalance,
                           !.withdrawals = r.withdrawals]
    /\ steps' = steps + 1
    /\ called' = called \cup {last'.op}
    /\ UNCHANGED <<user_wallet, last_rebalance, now>>

\* the maps the provider may return for the profiles of the portfolio
WeightChoices(profiles) ==
    {[p \in profiles |-> IF p = "Low" THEN wl ELSE wh] :
        wl \in get_recommended_weights("Low"), wh \in get_recommended_weights("High")}

\* the iteration order of each profile's deltas map
OrderChoices(weights_of) ==
    {[p \in DOMAIN weights_of |->
         IF reversed[p] THEN Reverse(InEnumOrder(DOMAIN weights_of[p], 1))
         ELSE InEnumOrder(DOMAIN weights_of[p], 1)] :
        reversed \in [DOMAIN weights_of -> BOOLEAN]}

\* Whether the build checks integer overflow (debug) or wraps (release)
\* shows only when a total or a balance exceeds i64::MAX: below that, every
\* target, every delta and its negation fit an i64.
OverflowChecks(profiles) ==
    IF \A profile \in DOMAIN profiles :
           /\ fits_i64(profiles[profile].total_amount)
           /\ \A pool_id \in DOMAIN profiles[profile].pool_allocations :
                  fits_i64(profiles[profile].pool_allocations[pool_id])
    THEN {TRUE} ELSE BOOLEAN

Rebalance ==
    /\ steps < MaxOps
    /\ \E profile_order \in OrdersOf(DOMAIN risk_profiles),
          weights_of \in WeightChoices(DOMAIN risk_profiles),
          checks \in OverflowChecks(risk_profiles) :
         \E order_of \in OrderChoices(weights_of) :
           \E r \in {rebalance(risk_profiles, last_rebalance, now, profile_order,
                               weights_of, order_of, checks)} :
             /\ risk_profiles' = r.risk_profiles
             /\ last_rebalance' = r.last_rebalance
             /\ last' = [NoCall EXCEPT
                           !.op = "rebalance", !.result = r.result,
                           !.before = risk_profiles,
                           !.before_last_rebalance = last_rebalance,
                           !.weights = weights_of, !.transfers = r.transfers,
                           !.fetched = r.fetched]
    /\ steps' = steps + 1
    /\ called' = called \cup {last'.op}
    /\ UNCHANGED <<user_wallet, now>>

\* should_rebalance(&portfolio): reads the clock and the portfolio
ShouldRebalance ==
    /\ steps < MaxOps
    /\ last' = [NoCall EXCEPT
                  !.op = "should_rebalance",
                  !.result = should_rebalance(now, last_rebalance),
                  !.before = risk_profiles,
                  !.before_last_rebalance = last_rebalance]
    /\ steps' = steps + 1
    /\ called' = called \cup {last'.op}
    /\ UNCHANGED <<user_wallet, risk_profiles, last_rebalance, now>>

\* the changes of the system clock between two calls: a second back (the
\* system clock is not monotonic), a second forward, one interval forward
ClockSteps == {-1, 1, rebalance_interval}

\* Time passes between two calls: SystemTime::now() reads another instant.
Tick ==
    /\ steps < MaxOps
    /\ \E d \in ClockSteps :
         /\ now + d >= 0
         /\ now' = now + d
    /\ last' = [NoCall EXCEPT
                  !.op = "tick",
                  !.before = risk_profiles,
                  !.before_last_rebalance = last_rebalance]
    /\ steps' = steps + 1
    /\ UNCHANGED <<user_wallet, risk_profiles, last_rebalance, called>>

Next == Deposit \/ Withdraw \/ Rebalance \/ ShouldRebalance \/ Tick

Spec == Init /\ [][Next]_vars

(***************************************************************************)
(* The engine behind another weight provider: one whose recommendation     *)
(* changes for every profile, between everything in Kamino and half in     *)
(* Kamino, half in Solend.  Under it a rebalance has funds to move in      *)
(* each of two profiles.                                                   *)
(***************************************************************************)
ChangingWeights ==
    { [Kamino |-> 10000],
      [Kamino |-> 5000, Solend |-> 5000] }
\* get_recommended_weights(profile) of that provider
changing_recommended_weights(profile) == ChangingWeights

\* the amounts a caller deposits under that provider
ChangingAmounts == {3, 20}

DepositChanging ==
    /\ steps < MaxOps
    /\ \E profile \in RiskProfile, amount \in ChangingAmounts :
         \E weights \in changing_recommended_weights(profile) :
           \E order \in IterationOrders(DOMAIN weights) :
             \E r \in {deposit(risk_profiles, profile, amount, weights, order)} :
               /\ risk_profiles' = r.risk_profiles
               /\ last' = [NoCall EXCEPT
                             !.op = "deposit", !.profile = profile, !.amount = amount,
                             !.result = r.result, !.before = risk_profiles,
                             !.before_last_rebalance = last_rebalance,
                             !.weights = [p \in {profile} |-> weights],
                             !.deposits_to_execute = r.deposits_to_execute,
                             !.fetched = r.fetched]
    /\ steps' = steps + 1
    /\ called' = called \cup {last'.op}
    /\ UNCHANGED <<user_wallet, last_rebalance, now>>

RebalanceChanging ==
    /\ steps < MaxOps
    /\ \E profile_order \in OrdersOf(DOMAIN risk_profiles),
          weights_of \in [DOMAIN risk_profiles -> ChangingWeights],
          checks \in OverflowChecks(risk_profiles) :
         \E order_of \in OrderChoices(weights_of) :
           \E r \in {rebalance(risk_profiles, last_rebalance, now, profile_order,
                               weights_of, order_of, checks)} :
             /\ risk_profiles' = r.risk_profiles
             /\ last_rebalance' = r.last_rebalance
             /\ last' = [NoCall EXCEPT
                           !.op = "rebalance", !.result = r.result,
                           !.before = risk_profiles,
                           !.before_last_rebalance = last_rebalance,
                           !.weights = weights_of, !.transfers = r.transfers,
                           !.fetched = r.fetched]
    /\ steps' = steps + 1
    /\ called' = called \cup {last'.op}
    /\ UNCHANGED <<user_wallet, now>>

NextChanging == DepositChanging \/ RebalanceChanging \/ Withdraw \/ Tick

SpecChanging == Init /\ [][NextChanging]_vars

(***************************************************************************)
(* Vocabulary of the properties.                                           *)
(***************************************************************************)
\* the sum of the pool balances of an allocation
PoolSum(allocation) == MapSum(allocation.pool_allocations)
\* total_amount of a profile before the last call, 0 if it had no allocation
TotalBefore(profile) ==
    IF profile \in DOMAIN last.before THEN last.before[profile].total_amount ELSE 0
\* the sum of the shares of the deposit instructions the last deposit returned
SharesSum ==
    SeqSum([i \in 1..Len(last.deposits_to_execute) |-> last.deposits_to_execute[i].amount])
\* the sum of the amounts the last withdraw removed from the pools
WithdrawnSum ==
    MapSum([pool_id \in DOMAIN last.withdrawals |->
               last.withdrawals[pool_id].withdrawal_amount])
\* |a - b|
Distance(a, b) == IF a >= b THEN a - b ELSE b - a
\* the portfolio is as the last call found it
PortfolioUnchanged ==
    /\ risk_profiles = last.before
    /\ last_rebalance = last.before_last_rebalance
    /\ user_wallet = "Pubkey::default()"

(***************************************************************************)
(* Properties.                                                             *)
(***************************************************************************)

\* C1: in every reachable state, each profile allocation's total_amount
\* equals the sum of its per-pool amounts.
C1_TotalIsPoolSum ==
    \A profile \in DOMAIN risk_profiles :
        risk_profiles[profile].total_amount = PoolSum(risk_profiles[profile])

\* C2: a completed rebalance leaves the sum of the pool balances of every
\* profile as it was before the call.
C2_RebalanceConservesPoolSum ==
    (last.op = "rebalance" /\ last.result = Ok) =>
        \A profile \in DOMAIN risk_profiles :
            PoolSum(risk_profiles[profile]) = PoolSum(last.before[profile])

\* C3: after deposit(profile, a) the profile's total_amount is its
\* total_amount before the call (0 if the profile was absent) plus a.
C3_DepositAddsAmount ==
    last.op = "deposit" =>
        risk_profiles[last.profile].total_amount = TotalBefore(last.profile) + last.amount

\* C4: after a successful withdraw(profile, a) the profile's total_amount
\* is its total_amount before the call minus a.
C4_WithdrawSubtractsAmount ==
    (last.op = "withdraw" /\ last.result = Ok) =>
        risk_profiles[last.profile].total_amount = TotalBefore(last.profile) - last.amount
\* a successful withdraw of a positive amount, less than the total, from
\* pools that hold funds
C4_Witness ==
    /\ last.op = "withdraw" /\ last.result = Ok
    /\ last.amount > 0 /\ last.amount < TotalBefore(last.profile)
    /\ PoolSum(last.before[last.profile]) > 0

\* C5: withdraw of more than the profile's total_amount returns
\* InsufficientFunds and leaves the whole portfolio unchanged.
C5_InsufficientFundsNoChange ==
    (/\ last.op = "withdraw"
     /\ last.profile \in DOMAIN last.before
     /\ last.amount > TotalBefore(last.profile)) =>
        (last.result = InsufficientFunds /\ PortfolioUnchanged)
\* an overdrawing withdraw from a funded profile, next to another profile
C5_Witness ==
    /\ last.op = "withdraw"
    /\ DOMAIN last.before = RiskProfile
    /\ TotalBefore(last.profile) > 0
    /\ last.amount = TotalBefore(last.profile) + 1
    /\ last.result = InsufficientFunds

\* C6: withdraw from a profile that has no allocation returns
\* ProfileNotFound whatever the amount (0 included, and amounts above the
\* total of 0 an allocation would start with), leaves the portfolio
\* unchanged and creates no allocation.
C6_ProfileNotFoundNoChange ==
    (last.op = "withdraw" /\ last.profile \notin DOMAIN last.before) =>
        /\ last.result = ProfileNotFound
        /\ PortfolioUnchanged
        /\ last.profile \notin DOMAIN risk_profiles
\* withdraw(profile, 0) on a portfolio that holds another profile only
C6_Witness ==
    /\ last.op = "withdraw"
    /\ last.profile \notin DOMAIN last.before
    /\ last.before # EmptyMap
    /\ last.amount = 0
    /\ last.result = ProfileNotFound

\* C7: the shares of a deposit of amount a under a weight map summing to
\* 10,000 bps sum to at most a, and a minus that sum is less than the
\* number of pools of the weight map.
C7_DepositSharesBound ==
    (last.op = "deposit" /\ MapSum(last.weights[last.profile]) = BPS_DENOMINATOR) =>
        /\ SharesSum <= last.amount
        /\ last.amount - SharesSum < Cardinality(DOMAIN last.weights[last.profile])
\* a deposit whose shares lose something to the floor division
C7_Witness ==
    /\ last.op = "deposit"
    /\ MapSum(last.weights[last.profile]) = BPS_DENOMINATOR
    /\ Len(last.deposits_to_execute) > 1
    /\ SharesSum > 0 /\ SharesSum < last.amount

\* C8: the amounts a successful withdraw(profile, a) removes from the
\* profile's pools sum to at most a.
C8_WithdrawnAtMostAmount ==
    (last.op = "withdraw" /\ last.result = Ok) => WithdrawnSum <= last.amount

\* C9: after a successful withdraw(profile, a), a minus the sum of the
\* per-pool withdrawals is less than the number of pools the profile holds.
C9_WithdrawShortfallBound ==
    (last.op = "withdraw" /\ last.result = Ok) =>
        last.amount - WithdrawnSum <
            Cardinality(DOMAIN last.before[last.profile].pool_allocations)

\* C10: after a completed rebalance of a profile whose pool balances summed
\* to total_amount, every pool of the weight map is within (number of pools)
\* of floor(total_amount * bps / 10000).
C10_RebalanceReachesTargets ==
    (last.op = "rebalance" /\ last.result = Ok) =>
        \A profile \in DOMAIN last.before :
            PoolSum(last.before[profile]) = last.before[profile].total_amount =>
                \A pool_id \in DOMAIN last.weights[profile] :
                    Distance(get_or_zero(risk_profiles[profile].pool_allocations, pool_id),
                             (last.before[profile].total_amount
                                  * last.weights[profile][pool_id]) \div BPS_DENOMINATOR)
                        < Cardinality(Protocol)

\* C11: after a completed rebalance, every pool a profile held that is
\* absent from the weight map has balance 0 (it is treated as target 0 and
\* its funds have moved to pools of the weight map).
C11_AbsentPoolsDrained ==
    (last.op = "rebalance" /\ last.result = Ok) =>
        \A profile \in DOMAIN last.before :
            \A pool_id \in DOMAIN last.before[profile].pool_allocations :
                pool_id \notin DOMAIN last.weights[profile] =>
                    risk_profiles[profile].pool_allocations[pool_id] = 0

\* every pool of the weight map of the profile held, before the last
\* rebalance, exactly floor(total_amount * bps / 10000)
AtTargets(profile) ==
    \A pool_id \in DOMAIN last.weights[profile] :
        get_or_zero(last.before[profile].pool_allocations, pool_id) =
            (last.before[profile].total_amount * last.weights[profile][pool_id])
                \div BPS_DENOMINATOR

\* C12: a rebalance of a profile whose weight-map pools all hold exactly
\* their target produces no transfer for it and leaves its pool balances
\* unchanged; when this is so for every profile, the call succeeds and
\* last_rebalance is still set to the current time.
C12_RebalanceIdempotent ==
    last.op = "rebalance" =>
        /\ \A profile \in DOMAIN last.before :
               AtTargets(profile) =>
                   /\ last.transfers[profile] = <<>>
                   /\ risk_profiles[profile].pool_allocations =
                          last.before[profile].pool_allocations
        /\ (\A profile \in DOMAIN last.before : AtTargets(profile)) =>
               /\ last.result = Ok
               /\ last_rebalance = now
\* a rebalance of a funded profile spread over several pools, all at target
C12_Witness ==
    /\ last.op = "rebalance"
    /\ \A profile \in DOMAIN last.before : AtTargets(profile)
    /\ \E profile \in DOMAIN last.before :
           /\ last.before[profile].total_amount > 0
           /\ Cardinality({pool_id \in DOMAIN last.weights[profile] :
                  get_or_zero(last.before[profile].pool_allocations, pool_id) > 0}) > 1
    /\ risk_profiles = last.before
    /\ last_rebalance = now

\* the pool balances of a profile before the last call, none if it had no
\* allocation
PoolsBefore(profile) ==
    IF profile \in DOMAIN last.before
    THEN last.before[profile].pool_allocations ELSE EmptyMap

\* C13: deposit returns exactly one instruction (pool, share, bps) for each
\* pool of the weight map and none for any other pool, with
\* share = floor(amount * bps / 10000); the stored balance of each such pool
\* increases by exactly that share and every other pool keeps its balance.
C13_DepositInstructions ==
    last.op = "deposit" =>
        /\ Len(last.deposits_to_execute) = Cardinality(DOMAIN last.weights[last.profile])
        /\ {last.deposits_to_execute[i].protocol : i \in 1..Len(last.deposits_to_execute)}
               = DOMAIN last.weights[last.profile]
        /\ \A i \in 1..Len(last.deposits_to_execute) :
               /\ last.deposits_to_execute[i].allocation_basis_points =
                      last.weights[last.profile][last.deposits_to_execute[i].protocol]
               /\ last.deposits_to_execute[i].amount =
                      (last.amount * last.deposits_to_execute[i].allocation_basis_points)
                          \div BPS_DENOMINATOR
               /\ risk_profiles[last.profile].pool_allocations[
                          last.deposits_to_execute[i].protocol] =
                      get_or_zero(PoolsBefore(last.profile),
                                  last.deposits_to_execute[i].protocol)
                          + last.deposits_to_execute[i].amount
        /\ \A pool_id \in DOMAIN PoolsBefore(last.profile) :
               pool_id \notin DOMAIN last.weights[last.profile] =>
                   risk_profiles[last.profile].pool_allocations[pool_id] =
                       PoolsBefore(last.profile)[pool_id]

\* C14: in every operation, the portfolio is still as the operation found
\* it at every call of the weight provider (so that a failing provider
\* leaves it unchanged); in particular, when rebalance runs over two or more
\* profiles, no profile has been mutated when the provider is called for a
\* later profile.
C14_FetchBeforeMutation ==
    \A profile \in DOMAIN last.fetched : last.fetched[profile] = last.before

\* the time elapsed since last_rebalance, 0 if last_rebalance is in the future
Elapsed == IF last_rebalance > now THEN 0 ELSE now - last_rebalance

C16_RebalanceSetsTimestamp ==
    last.op = "rebalance" => last_rebalance = now

\* C17: in a sequence of deposits and rebalances, the weight map changing
\* between calls (every map summing to 10,000 bps), every deposit and every
\* rebalance returns success.
C17_DepositRebalanceSucceed ==
    ("withdraw" \notin called /\ last.op \in {"deposit", "rebalance"}) =>
        last.result = Ok

\* C18: no step removes a profile from the portfolio or a pool entry from a
\* profile (zero-valued entries are kept), and a profile allocation appears
\* only through a deposit into that profile, never through withdraw or
\* rebalance.
C18_EntriesPersist ==
    [][/\ DOMAIN risk_profiles \subseteq DOMAIN risk_profiles'
       /\ \A profile \in DOMAIN risk_profiles :
              DOMAIN risk_profiles[profile].pool_allocations
                  \subseteq DOMAIN risk_profiles'[profile].pool_allocations
       /\ \A profile \in (DOMAIN risk_profiles') \ (DOMAIN risk_profiles) :
              last'.op = "deposit" /\ last'.profile = profile]_vars
\* a withdraw of everything a funded profile held: the profile and its pool
\* entries stay, at zero
C18_Witness ==
    /\ last.op = "withdraw" /\ last.result = Ok
    /\ last.amount > 0
    /\ PoolSum(last.before[last.profile]) > 0
    /\ last.profile \in DOMAIN risk_profiles
    /\ risk_profiles[last.profile].total_amount = 0
    /\ DOMAIN risk_profiles[last.profile].pool_allocations # {}
    /\ \A pool_id \in DOMAIN risk_profiles[last.profile].pool_allocations :
           risk_profiles[last.profile].pool_allocations[pool_id] = 0

\* the amount the transfers <<from_pool, to_pool, amount>> of a plan move
\* out of a pool
RECURSIVE MovedOut(_, _)
MovedOut(transfers, pool_id) ==
    IF transfers = <<>> THEN 0
    ELSE (IF Head(transfers)[1] = pool_id THEN Head(transfers)[3] ELSE 0)
             + MovedOut(Tail(transfers), pool_id)
\* floor(total_amount * bps / 10000) of a pool before the last rebalance,
\* 0 for a pool outside the weight map
TargetBefore(profile, pool_id) ==
    (last.before[profile].total_amount * get_or_zero(last.weights[profile], pool_id))
        \div BPS_DENOMINATOR
\* current - target of a pool at the start of the last rebalance, 0 if the
\* pool held no more than its target
ExcessBefore(profile, pool_id) ==
    IF PoolsBefore(profile)[pool_id] > TargetBefore(profile, pool_id)
    THEN PoolsBefore(profile)[pool_id] - TargetBefore(profile, pool_id)
    ELSE 0

\* C19: over all transfers of one rebalance of a profile, the amount moved
\* out of a pool never exceeds the pool's excess (current - target) at the
\* start of the rebalance; so no releasing pool ends below its target.
C19_TransfersWithinExcess ==
    last.op = "rebalance" =>
        \A profile \in DOMAIN last.before :
            \A pool_id \in DOMAIN PoolsBefore(profile) :
                /\ MovedOut(last.transfers[profile], pool_id)
                       <= ExcessBefore(profile, pool_id)
                /\ MovedOut(last.transfers[profile], pool_id) > 0 =>
                       risk_profiles[profile].pool_allocations[pool_id]
                           >= TargetBefore(profile, pool_id)

\* floor(amount * 10000 / total_amount) of the last withdraw
ProportionBefore == (last.amount * 10000) \div TotalBefore(last.profile)

\* C20: a successful withdraw leaves every pool the profile held with
\* pool_amount - floor(pool_amount * proportion_bps / 10000), where
\* proportion_bps = floor(amount * 10000 / total_amount) <= 10000; no pool
\* balance increases or becomes negative.
C20_WithdrawProportional ==
    (last.op = "withdraw" /\ last.result = Ok) =>
        /\ ProportionBefore <= 10000
        /\ DOMAIN risk_profiles[last.profile].pool_allocations
               = DOMAIN PoolsBefore(last.profile)
        /\ \A pool_id \in DOMAIN PoolsBefore(last.profile) :
               /\ risk_profiles[last.profile].pool_allocations[pool_id] =
                      PoolsBefore(last.profile)[pool_id]
                          - (PoolsBefore(last.profile)[pool_id] * ProportionBefore)
                                \div 10000
               /\ risk_profiles[last.profile].pool_allocations[pool_id]
                      <= PoolsBefore(last.profile)[pool_id]
               /\ risk_profiles[last.profile].pool_allocations[pool_id] >= 0
\* a withdraw of part of the total that takes from several pools and leaves
\* something in them
C20_Witness ==
    /\ last.op = "withdraw" /\ last.result = Ok
    /\ last.amount > 0 /\ last.amount < TotalBefore(last.profile)
    /\ Cardinality({pool_id \in DOMAIN PoolsBefore(last.profile) :
           /\ risk_profiles[last.profile].pool_allocations[pool_id] > 0
           /\ risk_profiles[last.profile].pool_allocations[pool_id]
                  < PoolsBefore(last.profile)[pool_id]}) > 1

\* C21: for a fixed allocation and a fixed weight map, the transfer plan and
\* the final pool balances of a rebalance are the same whatever the
\* iteration order of the maps, also when several pools have equal deltas.
C21_RebalanceDeterministic ==
    (last.op = "rebalance" /\ last.result = Ok) =>
        \A profile \in DOMAIN last.before :
            \A order \in IterationOrders(DOMAIN last.weights[profile]) :
                /\ rebalance_profile(last.before[profile], last.weights[profile],
                                     order, FALSE).transfers
                       = last.transfers[profile]
                /\ rebalance_profile(last.before[profile], last.weights[profile],
                                     order, FALSE).allocation
                       = risk_profiles[profile]

\* target - current of a pool at the start of the last rebalance
NeedBefore(profile, pool_id) ==
    TargetBefore(profile, pool_id) - get_or_zero(PoolsBefore(profile), pool_id)
\* the amount the first n transfers of a plan move into a pool
RECURSIVE MovedIn(_, _, _)
MovedIn(transfers, pool_id, n) ==
    IF n = 0 THEN 0
    ELSE (IF transfers[n][2] = pool_id THEN transfers[n][3] ELSE 0)
             + MovedIn(transfers, pool_id, n - 1)

\* C22: in the transfer plan of a profile, receiving pools are served in
\* order of non-increasing need (target - current), one after the other; for
\* one receiving pool the releasing pools are used in order of
\* non-increasing excess (current - target); and no transfer to a pool is
\* recorded once its need is satisfied.
C22_TransferOrder ==
    last.op = "rebalance" =>
        \A profile \in DOMAIN last.before :
            \A i, j \in 1..Len(last.transfers[profile]) :
                /\ i < j =>
                       /\ NeedBefore(profile, last.transfers[profile][i][2])
                              >= NeedBefore(profile, last.transfers[profile][j][2])
                       /\ last.transfers[profile][i][2] = last.transfers[profile][j][2] =>
                              /\ NeedBefore(profile, last.transfers[profile][i][1])
                                     <= NeedBefore(profile, last.transfers[profile][j][1])
                              /\ \A k \in i..j : last.transfers[profile][k][2]
                                                     = last.transfers[profile][i][2]
                /\ MovedIn(last.transfers[profile], last.transfers[profile][j][2], j - 1)
                       < NeedBefore(profile, last.transfers[profile][j][2])

\* the outcomes of rebalancing one profile of the portfolio the last call
\* found, alone in a one-profile portfolio, under the weights of the last call
RebalancedAlone(profile) ==
    {rebalance([p \in {profile} |-> last.before[profile]], last.before_last_rebalance,
               now, <<profile>>, [p \in {profile} |-> last.weights[profile]],
               [p \in {profile} |-> order], checks).risk_profiles[profile] :
        order \in IterationOrders(DOMAIN last.weights[profile]), checks \in BOOLEAN}

\* C23: a rebalance of a portfolio with several profiles leaves each profile
\* as a rebalance of that profile alone, in a one-profile portfolio, leaves it.
C23_ProfilesIndependent ==
    last.op = "rebalance" =>
        \A profile \in DOMAIN last.before :
            risk_profiles[profile] \in RebalancedAlone(profile)

\* the clamped sum a deposit stores: the sum, or the largest u64 if the sum
\* is larger
Clamped(a, b) == IF a + b > U64_MAX THEN U64_MAX ELSE a + b

\* what C24 says of deposit: it returns success and stores the clamped total
\* and the clamped balance of every pool of the weight map
DepositClamps ==
    last.op = "deposit" =>
        /\ last.result = Ok
        /\ risk_profiles[last.profile].total_amount =
               Clamped(TotalBefore(last.profile), last.amount)
        /\ \A pool_id \in DOMAIN last.weights[last.profile] :
               risk_profiles[last.profile].pool_allocations[pool_id] =
                   Clamped(get_or_zero(PoolsBefore(last.profile), pool_id),
                           (last.amount * last.weights[last.profile][pool_id])
                               \div BPS_DENOMINATOR)

\* C24: arithmetic overflow never crashes an operation and is never reported:
\* no deposit and no rebalance, the two operations that add or subtract
\* amounts with a bounded result, ends in a panic, and a deposit whose total
\* or pool balance would exceed the largest u64 returns success with the
\* value clamped at the largest u64.
C24_OverflowNeverCrashes ==
    /\ last.op \in {"deposit", "rebalance"} => last.result # Panic
    /\ DepositClamps


\* C25: a withdraw from an existing profile of an amount that does not exceed
\* its total_amount completes and returns success, also for amount 0 on a
\* total_amount of 0; it never aborts on the division by total_amount.
C25_WithdrawWithinTotalSucceeds ==
    (/\ last.op = "withdraw"
     /\ last.profile \in DOMAIN last.before
     /\ last.amount <= TotalBefore(last.profile)) =>
        last.result = Ok

\* C26: in every reachable state the sum of a profile's pool balances does
\* not exceed the profile's total_amount.
C26_PoolSumAtMostTotal ==
    \A profile \in DOMAIN risk_profiles :
        PoolSum(risk_profiles[profile]) <= risk_profiles[profile].total_amount

\* C27: rebalance converges in one call: a rebalance that directly follows a
\* rebalance that returned, under the same weight maps, produces no transfer
\* and leaves every pool balance as it was.
C27_RebalanceConverges ==
    [][(/\ last.op = "rebalance"
        /\ last.result = Ok
        /\ last'.op = "rebalance"
        /\ last'.weights = last.weights) =>
           /\ \A profile \in DOMAIN last'.transfers :
                  last'.transfers[profile] = <<>>
           /\ \A profile \in DOMAIN risk_profiles :
                  risk_profiles'[profile].pool_allocations =
                      risk_profiles[profile].pool_allocations]_vars

\* C28: a withdraw of exactly total_amount, from a profile whose
\* total_amount is positive, drains the profile: it returns success, and
\* afterwards total_amount is 0 and every pool balance of the profile is 0,
\* every pool entry still being present.
C28_FullWithdrawDrains ==
    (/\ last.op = "withdraw"
     /\ last.profile \in DOMAIN last.before
     /\ TotalBefore(last.profile) > 0
     /\ last.amount = TotalBefore(last.profile)) =>
        /\ last.result = Ok
        /\ risk_profiles[last.profile].total_amount = 0
        /\ DOMAIN risk_profiles[last.profile].pool_allocations
               = DOMAIN PoolsBefore(last.profile)
        /\ \A pool_id \in DOMAIN PoolsBefore(last.profile) :
               risk_profiles[last.profile].pool_allocations[pool_id] = 0
\* a withdraw of the whole positive total of a profile that held funds in
\* several pools
C28_Witness ==
    /\ last.op = "withdraw"
    /\ last.profile \in DOMAIN last.before
    /\ TotalBefore(last.profile) > 0
    /\ last.amount = TotalBefore(last.profile)
    /\ Cardinality({pool_id \in DOMAIN PoolsBefore(last.profile) :
                        PoolsBefore(last.profile)[pool_id] > 0}) > 1
    /\ \A pool_id \in DOMAIN PoolsBefore(last.profile) :
           risk_profiles[last.profile].pool_allocations[pool_id] = 0

\* C29: a deposit or a withdraw on a profile leaves the allocation of every
\* other profile, the set of the other profiles, the owner and last_rebalance
\* as they were; no step other than a rebalance changes last_rebalance.
C29_DepositWithdrawFrame ==
    [][/\ last'.op \in {"deposit", "withdraw"} =>
              /\ \A profile \in (DOMAIN risk_profiles) \ {last'.profile} :
                     /\ profile \in DOMAIN risk_profiles'
                     /\ risk_profiles'[profile] = risk_profiles[profile]
              /\ (DOMAIN risk_profiles') \ {last'.profile} \subseteq DOMAIN risk_profiles
              /\ user_wallet' = user_wallet
              /\ last_rebalance' = last_rebalance
       /\ last_rebalance' # last_rebalance => last'.op = "rebalance"]_vars
\* a deposit that changed one profile of a portfolio whose other profile holds
\* funds
C29_Witness ==
    /\ last.op = "deposit" /\ last.amount > 0
    /\ \E profile \in (DOMAIN last.before) \ {last.profile} :
           /\ last.before[profile].total_amount > 0
           /\ risk_profiles[profile] = last.before[profile]
    /\ risk_profiles[last.profile].total_amount > TotalBefore(last.profile)

\* C30: a rebalance, whether it returns or not, leaves the set of profiles,
\* the total_amount and the risk_profile of every profile, and the owner as
\* they were; it changes only pool balances and last_rebalance.
C30_RebalanceFrame ==
    last.op = "rebalance" =>
        /\ DOMAIN risk_profiles = DOMAIN last.before
        /\ \A profile \in DOMAIN last.before :
               /\ risk_profiles[profile].total_amount = last.before[profile].total_amount
               /\ risk_profiles[profile].risk_profile = last.before[profile].risk_profile
        /\ user_wallet = "Pubkey::default()"
\* a rebalance of two profiles that moved funds between pools
C30_Witness ==
    /\ last.op = "rebalance" /\ last.result = Ok
    /\ Cardinality(DOMAIN last.before) > 1
    /\ \E profile \in DOMAIN last.before :
           /\ last.transfers[profile] # <<>>
           /\ risk_profiles[profile].pool_allocations
                  # last.before[profile].pool_allocations
           /\ risk_profiles[profile].total_amount > 0

====
